---- MODULE Spec2Model ----
(***************************************************************************)
(* Gesture-to-interaction engine of the A.D.A desktop front end            *)
(* (src/src/App.jsx).  The per-frame callback predictWebcam is modelled    *)
(* as one atomic action per outcome of its guards; React state is the      *)
(* committed state between callbacks, refs are the mutable mirrors the     *)
(* loop reads, and a "closure" is the set of state values a predictWebcam  *)
(* instance captured from the render in which startVideo was called.       *)
(*                                                                         *)
(* Units: screen coordinates are whole pixels; camera-normalised           *)
(* coordinates (0..1) are thousandths; the sensitivity is in tenths.       *)
(***************************************************************************)
EXTENDS Integers, Sequences, FiniteSets, TLC

(* ------------------------------ bounds -------------------------------- *)
\* video timestamps handed to the detector are 0..MaxVideoTime
MaxVideoTime == 1
\* startVideo calls whose getUserMedia promise is pending, plus scheduled
\* predictWebcam callbacks
MaxLoops == 2
\* predictWebcam iterations counted within one second of the FPS clock: the
\* 1000 ms have elapsed at the latest when the counter reaches MaxFrameCount
MaxFrameCount == 7
\* frames for which the smoothing is followed with the target held constant
MaxSmoothSteps == 3
\* hand frames over which the smoothed cursor is followed from (0,0)
MaxTrackSteps == 3
\* toasts added to the container
MaxToasts == 3
\* exit timers of one toast pending at a time
MaxExitTimers == 2
\* discoveries started in the printer window
MaxDiscoveries == 4

(* ------------------------- program constants -------------------------- *)
SNAP_THRESHOLD == 50
UNSNAP_THRESHOLD == 100
\* lerpFactor = 0.2 = 1 / LerpDen
LerpDen == 5
\* pinch threshold 0.05, in thousandths
PinchThreshold == 50
\* initial cursorSensitivity 2.0, in tenths
InitSensitivity == 20
\* frameCountRef.current % 5 === 0
SendEvery == 5

(* ---------------------------- environment ----------------------------- *)
\* window.innerWidth / innerHeight before and after a resize
WinSizes == { [w |-> 1000, h |-> 500], [w |-> 800, h |-> 500] }
InitWin == [w |-> 1000, h |-> 500]

Pt(px, py) == [x |-> px, y |-> py]

\* draggable panel ids in the scan order of the drag coordinator
elements == << "video", "visualizer", "chat", "cad", "browser", "tools" >>
Panels == { elements[i] : i \in 1..Len(elements) }
NoPanel == "null"

\* interactive elements matched by 'button, input, select, .draggable', in
\* document order: the close button of the browser window, then the video
\* toggle and the hand-tracking toggle of the tools bar
TargetOrder == << "browserClose", "videoToggle", "handToggle" >>
Targets == { TargetOrder[i] : i \in 1..Len(TargetOrder) }
NoTarget == "null"

\* centre of each target's bounding rectangle (layout, owned by the UI layer)
TargetCentre(t) ==
    CASE t = "handToggle"   -> Pt(125, 65)
      [] t = "videoToggle"  -> Pt(350, 170)
      [] t = "browserClose" -> Pt(75, 65)
\* half of a button's width and height
TargetHalf == 12

\* index-fingertip positions (landmark 8) the detector may report
RawA == Pt(500, 500)
RawB == Pt(750, 750)
Poses == { "open", "pinch", "fist" }
HandInputs == { [at |-> p, pose |-> q] : p \in {RawA, RawB}, q \in Poses }
NoHand == [at |-> Pt(0, 0), pose |-> "none"]
\* a closed hand whose thumb tip rests on the index fingertip: a fist and a
\* pinch on the same frame
FistPinchInputs == { [at |-> p, pose |-> "fistpinch"] : p \in {RawA, RawB} }

\* landmark indices used by the engine: wrist 0, thumb tip 4, finger tips
\* 8/12/16/20 and their base joints 5/9/13/17
UsedLandmarks == {0, 4, 5, 8, 9, 12, 13, 16, 17, 20}

Off(p, dx, dy) == Pt(p.x + dx, p.y + dy)

\* the landmark list the detector returns for a hand input
Landmarks(in) ==
    LET p == in.at IN
    IF in.pose \in {"fist", "fistpinch"}
    THEN [i \in UsedLandmarks |->
            CASE i = 0  -> Off(p, 0, 100)
              [] i = 4  -> IF in.pose = "fistpinch" THEN Off(p, 30, 0) ELSE Off(p, -80, 0)
              [] i = 5  -> Off(p, 0, -60)
              [] i = 8  -> p
              [] i = 9  -> Off(p, 40, -60)
              [] i = 12 -> Off(p, 40, 0)
              [] i = 13 -> Off(p, 80, -60)
              [] i = 16 -> Off(p, 80, 0)
              [] i = 17 -> Off(p, 120, -60)
              [] i = 20 -> Off(p, 120, 0)]
    ELSE [i \in UsedLandmarks |->
            CASE i = 0  -> Off(p, 0, 250)
              [] i = 4  -> IF in.pose = "pinch" THEN Off(p, 30, 0) ELSE Off(p, -120, 40)
              [] i = 5  -> Off(p, 0, 150)
              [] i = 8  -> p
              [] i = 9  -> Off(p, 40, 150)
              [] i = 12 -> Off(p, 40, -20)
              [] i = 13 -> Off(p, 80, 160)
              [] i = 16 -> Off(p, 80, 0)
              [] i = 17 -> Off(p, 120, 170)
              [] i = 20 -> Off(p, 120, 40)]

(* --------------------------- pure functions --------------------------- *)
Max(a, b) == IF a >= b THEN a ELSE b
Min(a, b) == IF a <= b THEN a ELSE b

\* integer quotient rounded toward zero
QuotTrunc(a, b) == IF a >= 0 THEN a \div b ELSE -((-a) \div b)

\* squared Euclidean distance; Math.sqrt is monotone, so comparing two
\* distances is comparing their squares
Dist2(p, q) == (p.x - q.x) * (p.x - q.x) + (p.y - q.y) * (p.y - q.y)

\* mutant of MapAxis: the offset from the centre is not restored
MapAxis_NoRecentre(raw, sens) == Max(0, Min(1000, QuotTrunc((raw - 500) * sens, 10)))

\* mutant of MapAxis: the result is not clamped
MapAxis_NoClamp(raw, sens) == QuotTrunc((raw - 500) * sens, 10) + 500

\* norm = clamp((raw - 0.5) * SENSITIVITY + 0.5, 0, 1)
MapAxis(raw, sens) == Max(0, Min(1000, QuotTrunc((raw - 500) * sens, 10) + 500))

\* target = norm * window size
TargetPos(raw, sens, wn) ==
    Pt(QuotTrunc(MapAxis(raw.x, sens) * wn.w, 1000),
       QuotTrunc(MapAxis(raw.y, sens) * wn.h, 1000))

\* mutant of Lerp: a factor above 1
Lerp_Overshoot(s, t) == s + QuotTrunc((t - s) * 6, LerpDen)

\* s + (t - s) * lerpFactor
Lerp(s, t) == s + QuotTrunc(t - s, LerpDen)

\* mutant of Smooth: the step is taken away from the target
Smooth_Away(sm, target) ==
    Pt(sm.x - QuotTrunc(target.x - sm.x, LerpDen), sm.y - QuotTrunc(target.y - sm.y, LerpDen))

Smooth(sm, target) == Pt(Lerp(sm.x, target.x), Lerp(sm.y, target.y))

\* distance(indexTip, thumbTip) < 0.05
IsPinchNow(lm) == Dist2(lm[8], lm[4]) < PinchThreshold * PinchThreshold

\* mutant of isFingerFolded: the tip must be nearer by a fixed margin
isFingerFolded_Absolute(lm, tipIdx, mcpIdx) ==
    Dist2(lm[tipIdx], lm[0]) + 10000 < Dist2(lm[mcpIdx], lm[0])

\* distTip < distMcp
isFingerFolded(lm, tipIdx, mcpIdx) == Dist2(lm[tipIdx], lm[0]) < Dist2(lm[mcpIdx], lm[0])

\* mutant of isFist: one folded finger is enough
isFist_AnyFinger(lm) ==
    \/ isFingerFolded(lm, 8, 5)
    \/ isFingerFolded(lm, 12, 9)
    \/ isFingerFolded(lm, 16, 13)
    \/ isFingerFolded(lm, 20, 17)

isFist(lm) ==
    /\ isFingerFolded(lm, 8, 5)
    /\ isFingerFolded(lm, 12, 9)
    /\ isFingerFolded(lm, 16, 13)
    /\ isFingerFolded(lm, 20, 17)

(* ----------------- the pure functions on inputs of their own ---------- *)
\* no calculation under way
IdleMap == [stage |-> "idle"]
IdleSmooth == [stage |-> "idle"]
IdleFist == [stage |-> "idle"]
IdleSnap == [stage |-> "idle"]
IdleTrack == [stage |-> "idle"]

\* raw fingertip coordinates (thousandths; the detector may report a point
\* slightly outside the image) and sensitivities of the settings slider
\* (min 1.0, max 5.0, in tenths)
MapCoords == {-200, 0, 100, 250, 500, 750, 900, 1000, 1200}
Sensitivities == {10, 15, 20, 37, 50}
MapInputs ==
    { [stage |-> "input", raw |-> Pt(px, py), sens |-> sn, wn |-> wn,
       norm |-> Pt(0, 0), target |-> Pt(0, 0)] :
          px \in MapCoords, py \in MapCoords, sn \in Sensitivities, wn \in WinSizes }

\* smoothed positions and targets, in pixels
SmoothCoords == {0, 3, 100, 502, 1000}
SmoothPts == { Pt(px, py) : px \in SmoothCoords, py \in SmoothCoords }
SmoothInputs ==
    { [stage |-> "input", prev |-> p, pos |-> p, target |-> t, n |-> 0] :
          p \in SmoothPts, t \in SmoothPts }

\* the four fingers: tip and base-joint (MCP) landmark of each
FingerPairs == << << 8, 5 >>, << 12, 9 >>, << 16, 13 >>, << 20, 17 >> >>
\* a finger's tip is nearer to the wrist than its base joint, exactly as far,
\* or farther
Folds == { "folded", "level", "extended" }
Wrists == { Pt(500, 800), Pt(300, 600) }
FistInputs ==
    { [stage |-> "input", wrist |-> w, folds |-> fd, k |-> << 1, 1 >>,
       fist |-> FALSE, scaled |-> FALSE] :
          w \in Wrists, fd \in [1..4 -> Folds] }

\* the landmark list of a hand with the given wrist and finger folds
FoldLandmarks(wrist, folds) ==
    LET dx(f) == 40 * (f - 1) - 60
        finger(i) == CHOOSE f \in 1..4 : i \in {FingerPairs[f][1], FingerPairs[f][2]}
    IN [i \in UsedLandmarks |->
          IF i = 0 THEN wrist
          ELSE IF i = 4 THEN Off(wrist, -120, -80)
          ELSE IF i = FingerPairs[finger(i)][2] THEN Off(wrist, dx(finger(i)), -160)
          ELSE CASE folds[finger(i)] = "folded"   -> Off(wrist, dx(finger(i)), -60)
                 [] folds[finger(i)] = "level"    -> Off(wrist, -dx(finger(i)), -160)
                 [] folds[finger(i)] = "extended" -> Off(wrist, dx(finger(i)), -320)]

\* the hand nearer to or farther from the camera: every landmark's offset
\* from the wrist is multiplied by k[1] / k[2]
ScaleFactors == { << 2, 1 >>, << 3, 1 >>, << 1, 2 >>, << 3, 2 >> }
ScaleLandmarks(lm, k) ==
    [i \in DOMAIN lm |->
        Pt(lm[0].x + QuotTrunc((lm[i].x - lm[0].x) * k[1], k[2]),
           lm[0].y + QuotTrunc((lm[i].y - lm[0].y) * k[1], k[2]))]


(* ------------------------------- state -------------------------------- *)
VARIABLES
    \* React state (the committed render)
    isVideoOn, isHandTrackingEnabled, isModularMode, cursorSensitivity,
    elementPositions, activeDragElement, cursorPos, isPinching,
    cadData, browserImage,
    \* refs read and written by the loop
    isVideoOnRef, isHandTrackingEnabledRef, isModularModeRef,
    cursorSensitivityRef, handLandmarkerRef, lastVideoTimeRef,
    activeDragElementRef, lastActiveDragElementRef, lastCursorPosRef,
    smoothedCursorPosRef, snapStateRef,
    \* DOM: elements carrying the snap-highlight class, window size
    highlighted, win,
    \* startVideo calls awaiting getUserMedia and scheduled predictWebcam
    \* callbacks, each with the state values its closure captured
    pendingStarts, rafQueue,
    \* history: how the last predictWebcam callback ended ("cancelled",
    \* "invalid", "nodetect", "dup", "nohand", "hand"; "none" after a step that
    \* ran no callback), the element it clicked, and
    \* the dragged panel's position and the cursor when the current drag started,
    \* the steps the hand block of that callback executed, in order, and the
    \* detector result it processed
    lastFrame, clicked, dragOrigin, dragStartCursor, frameSteps, frameInput,
    \* the promise of initHandLandmarker was rejected (its catch block ran)
    landmarkerFailed,
    \* power state, the frame counter of the FPS clock, and a record of the
    \* last iteration that passed the dimension check: whether it handed a
    \* frame to the socket, and how far back the transmission before it lies
    isConnected, frameCountRef, lastIter,
    \* the cursor mapping, the smoothing and the fist heuristic applied to
    \* inputs of their own: input, result and stage of each calculation
    mapBench, smoothBench, fistBench,
    \* likewise the snap logic on a cursor of its own, and the smoothed cursor
    \* tracking fingertips of its own
    snapBench, trackBench,
    \* the last keydown event and what handleKeyPress did with it
    keys,
    \* the toasts of the toast container, with their timers
    toasts,
    \* the printer window: discovery flag, fallback timers, messages in flight
    printer

reactVars == << isVideoOn, isHandTrackingEnabled, isModularMode, cursorSensitivity,
                elementPositions, activeDragElement, cursorPos, isPinching,
                cadData, browserImage >>
refVars == << isVideoOnRef, isHandTrackingEnabledRef, isModularModeRef,
              cursorSensitivityRef, handLandmarkerRef, lastVideoTimeRef,
              activeDragElementRef, lastActiveDragElementRef, lastCursorPosRef,
              smoothedCursorPosRef, snapStateRef >>
domVars == << highlighted, win >>
loopVars == << pendingStarts, rafQueue >>
histVars == << lastFrame, clicked, dragOrigin, dragStartCursor, frameSteps, frameInput >>
throttleVars == << isConnected, frameCountRef, lastIter >>
benchVars == << mapBench, smoothBench, fistBench, snapBench, trackBench >>
widgetVars == << keys, toasts, printer >>
vars == << reactVars, refVars, domVars, loopVars, histVars, landmarkerFailed,
          throttleVars, benchVars, widgetVars >>

\* the gesture state the engine owns
gestureVars == << cursorPos, isPinching, smoothedCursorPosRef, snapStateRef, highlighted,
                  activeDragElement, activeDragElementRef, lastActiveDragElementRef,
                  lastCursorPosRef, elementPositions >>

Unsnapped == [isSnapped |-> FALSE, element |-> NoTarget, snapPos |-> Pt(0, 0)]

(* --------------------------- panel positions -------------------------- *)
\* centerElements: visualizer, chat and tools are placed from the window size
centerElements(prev, wn) ==
    [prev EXCEPT !["visualizer"] = Pt(wn.w \div 2, (wn.h \div 2) - 180),
                 !["chat"] = Pt(wn.w \div 2, ((wn.h \div 2) - 180) + 200 + 30),
                 !["tools"] = Pt(wn.w \div 2, wn.h - 100)]

\* useState initial value of elementPositions
MountPositions(wn) ==
    [p \in Panels |->
        CASE p = "video"      -> Pt(40, 80)
          [] p = "visualizer" -> Pt(wn.w \div 2, wn.h \div 2)
          [] p = "chat"       -> Pt(wn.w \div 2, wn.h - 100)
          [] p = "cad"        -> Pt((wn.w \div 2) + 300, wn.h \div 2)
          [] p = "browser"    -> Pt((wn.w \div 2) - 300, wn.h \div 2)
          [] p = "tools"      -> Pt(wn.w \div 2, wn.h - 30)]

\* mutant of updateElementPosition: the delta is applied to every panel
updateElementPosition_AllPanels(prev, id, dx, dy) ==
    [p \in DOMAIN prev |-> Pt(prev[p].x + dx, prev[p].y + dy)]

\* setElementPositions(prev => ({...prev, [id]: {x: prev[id].x + dx, y: prev[id].y + dy}}))
updateElementPosition(prev, id, dx, dy) ==
    [prev EXCEPT ![id] = Pt(prev[id].x + dx, prev[id].y + dy)]

\* mutant of socketPlacePanel: the panel is placed on every message
socketPlacePanel_Always(prev, id, wn, place) == [prev EXCEPT ![id] = place]

\* socket 'cad_data' / 'browser_frame': the handlers were registered by the
\* mount effect, so their test reads the elementPositions of the first render
socketPlacePanel(prev, id, wn, place) ==
    IF id \notin DOMAIN MountPositions(wn) THEN [prev EXCEPT ![id] = place] ELSE prev

\* width and height of a panel's box, and whether the box is centred on the
\* stored position (transform: translate(-50%, -50%)) or starts at it
PanelBox(id) ==
    CASE id = "video"      -> [w |-> 344, h |-> 204, centred |-> FALSE]
      [] id = "visualizer" -> [w |-> 600, h |-> 400, centred |-> TRUE]
      [] id = "chat"       -> [w |-> 600, h |-> 160, centred |-> TRUE]
      [] id = "cad"        -> [w |-> 500, h |-> 500, centred |-> TRUE]
      [] id = "browser"    -> [w |-> 600, h |-> 450, centred |-> TRUE]
      [] id = "tools"      -> [w |-> 400, h |-> 80, centred |-> TRUE]

\* el.getBoundingClientRect()
PanelRect(id, pos) ==
    LET b == PanelBox(id)
        l == IF b.centred THEN pos[id].x - (b.w \div 2) ELSE pos[id].x
        t == IF b.centred THEN pos[id].y - (b.h \div 2) ELSE pos[id].y
    IN [left |-> l, right |-> l + b.w, top |-> t, bottom |-> t + b.h]

\* document.getElementById(id) is non-null
MountedPanels(cad, img) ==
    {"video", "visualizer", "chat", "tools"}
        \cup (IF cad THEN {"cad"} ELSE {}) \cup (IF img THEN {"browser"} ELSE {})

\* document.querySelectorAll('button, input, select, .draggable')
MountedTargets(img) ==
    {"handToggle", "videoToggle"} \cup (IF img THEN {"browserClose"} ELSE {})

(* ----------------------------- snap engine ---------------------------- *)
\* the loop over targets: a later target replaces the closest only when it
\* is strictly nearer (dist < minDist, minDist starting at Infinity)
RECURSIVE ScanTargets(_, _, _, _)
ScanTargets(i, p, mounted, best) ==
    IF i > Len(TargetOrder) THEN best
    ELSE LET t == TargetOrder[i]
             d == Dist2(p, TargetCentre(t))
         IN IF t \in mounted /\ (best.el = NoTarget \/ d < best.d2)
            THEN ScanTargets(i + 1, p, mounted, [el |-> t, d2 |-> d])
            ELSE ScanTargets(i + 1, p, mounted, best)

\* mutant of ClosestTarget: among equally near targets the last in scan
\* order is kept
ClosestTarget_LastWins(p, mounted) ==
    IF mounted = {} THEN [el |-> NoTarget, d2 |-> 0]
    ELSE LET idx == { i \in 1..Len(TargetOrder) : TargetOrder[i] \in mounted }
             best == CHOOSE i \in idx : \A j \in idx :
                        \/ Dist2(p, TargetCentre(TargetOrder[i])) < Dist2(p, TargetCentre(TargetOrder[j]))
                        \/ /\ Dist2(p, TargetCentre(TargetOrder[i])) = Dist2(p, TargetCentre(TargetOrder[j]))
                           /\ i >= j
         IN [el |-> TargetOrder[best], d2 |-> Dist2(p, TargetCentre(TargetOrder[best]))]

ClosestTarget(p, mounted) == ScanTargets(1, p, mounted, [el |-> NoTarget, d2 |-> 0])

\* mutant of ShouldUnsnap: the snap-in threshold is used for unsnapping too
ShouldUnsnap_NoHysteresis(p, anchor) == Dist2(p, anchor) > SNAP_THRESHOLD * SNAP_THRESHOLD

\* dist > UNSNAP_THRESHOLD
ShouldUnsnap(p, anchor) == Dist2(p, anchor) > UNSNAP_THRESHOLD * UNSNAP_THRESHOLD

\* mutant of ShouldSnap: the unsnap threshold is used for snapping in
ShouldSnap_Wide(closest) ==
    closest.el # NoTarget /\ closest.d2 < UNSNAP_THRESHOLD * UNSNAP_THRESHOLD

\* closest && minDist < SNAP_THRESHOLD
ShouldSnap(closest) ==
    closest.el # NoTarget /\ closest.d2 < SNAP_THRESHOLD * SNAP_THRESHOLD

\* mutant of SnapEngine: after an unsnap the targets are scanned on the same
\* frame
SnapEngine_Rescan(snap, p, mounted, hl) ==
    LET closest == ClosestTarget(p, mounted) IN
    IF snap.isSnapped /\ ~ShouldUnsnap(p, snap.snapPos)
    THEN [snap |-> snap, final |-> snap.snapPos, hl |-> hl]
    ELSE IF ShouldSnap(closest)
         THEN [snap |-> [isSnapped |-> TRUE, element |-> closest.el,
                         snapPos |-> TargetCentre(closest.el)],
               final |-> TargetCentre(closest.el),
               hl |-> (hl \ {snap.element}) \cup {closest.el}]
         ELSE [snap |-> Unsnapped, final |-> p, hl |-> hl \ {snap.element}]

\* mutant of SnapEngine: the cursor is never pinned to the anchor
SnapEngine_NoPin(snap, p, mounted, hl) ==
    IF snap.isSnapped
    THEN IF ShouldUnsnap(p, snap.snapPos)
         THEN [snap |-> Unsnapped, final |-> p, hl |-> hl \ {snap.element}]
         ELSE [snap |-> snap, final |-> p, hl |-> hl]
    ELSE LET closest == ClosestTarget(p, mounted) IN
         IF ShouldSnap(closest)
         THEN [snap |-> [isSnapped |-> TRUE, element |-> closest.el,
                         snapPos |-> TargetCentre(closest.el)],
               final |-> p,
               hl |-> hl \cup {closest.el}]
         ELSE [snap |-> snap, final |-> p, hl |-> hl]

\* one pass of the snap-to-button logic on the smoothed position p: the new
\* snap state, the final (effective) cursor position and the highlighted set
SnapEngine(snap, p, mounted, hl) ==
    IF snap.isSnapped
    THEN IF ShouldUnsnap(p, snap.snapPos)
         THEN [snap |-> Unsnapped, final |-> p, hl |-> hl \ {snap.element}]
         ELSE [snap |-> snap, final |-> snap.snapPos, hl |-> hl]
    ELSE LET closest == ClosestTarget(p, mounted) IN
         IF ShouldSnap(closest)
         THEN [snap |-> [isSnapped |-> TRUE, element |-> closest.el,
                         snapPos |-> TargetCentre(closest.el)],
               final |-> TargetCentre(closest.el),
               hl |-> hl \cup {closest.el}]
         ELSE [snap |-> snap, final |-> p, hl |-> hl]

(* --------------------------- click dispatcher ------------------------- *)
\* isPinchNow && !isPinching, isPinching being the value the closure holds
ClickFires(isPinchNow, closureIsPinching) == isPinchNow /\ ~closureIsPinching

InTarget(p, t) ==
    LET c == TargetCentre(t) IN
    /\ p.x >= c.x - TargetHalf /\ p.x <= c.x + TargetHalf
    /\ p.y >= c.y - TargetHalf /\ p.y <= c.y + TargetHalf

\* document.elementFromPoint(finalX, finalY).closest('button, ...'): the
\* control under the point, "miss" when the element there is no control
HitTarget(p, mounted) ==
    LET hit == { i \in 1..Len(TargetOrder) : TargetOrder[i] \in mounted /\ InTarget(p, TargetOrder[i]) }
    IN IF hit = {} THEN "miss"
       ELSE TargetOrder[CHOOSE i \in hit : \A j \in hit : i <= j]

(* --------------------------- drag coordinator ------------------------- *)
InRect(p, r) == p.x >= r.left /\ p.x <= r.right /\ p.y >= r.top /\ p.y <= r.bottom

\* mutant of FirstPanelAt: the first mounted panel is taken without the
\* containment test
FirstPanelAt_NoTest(p, pos, mounted) ==
    LET hit == { i \in 1..Len(elements) : elements[i] \in mounted }
    IN IF hit = {} THEN NoPanel
       ELSE elements[CHOOSE i \in hit : \A j \in hit : i <= j]

\* the collision scan: first mounted panel, in the order of elements, whose
\* rectangle contains the point
FirstPanelAt(p, pos, mounted) ==
    LET hit == { i \in 1..Len(elements) :
                    elements[i] \in mounted /\ InRect(p, PanelRect(elements[i], pos)) }
    IN IF hit = {} THEN NoPanel
       ELSE elements[CHOOSE i \in hit : \A j \in hit : i <= j]

\* mutant of DragCoordinator: the collision scan runs on every fist frame
DragCoordinator_Rescan(modular, fist, active, final, last, pos, mounted) ==
    IF ~modular THEN [active |-> active, pos |-> pos]
    ELSE IF ~fist THEN [active |-> NoPanel, pos |-> pos]
    ELSE LET a == FirstPanelAt(final, pos, mounted)
         IN IF a # NoPanel
            THEN [active |-> a,
                  pos |-> updateElementPosition(pos, a, final.x - last.x, final.y - last.y)]
            ELSE [active |-> a, pos |-> pos]

\* the modular-mode block: the new activeDragElementRef and panel positions
DragCoordinator(modular, fist, active, final, last, pos, mounted) ==
    IF ~modular THEN [active |-> active, pos |-> pos]
    ELSE IF ~fist THEN [active |-> NoPanel, pos |-> pos]
    ELSE LET a == IF active = NoPanel THEN FirstPanelAt(final, pos, mounted) ELSE active
         IN IF a # NoPanel
            THEN [active |-> a,
                  pos |-> updateElementPosition(pos, a, final.x - last.x, final.y - last.y)]
            ELSE [active |-> a, pos |-> pos]

\* mutant of PipelineSteps: the pinch flag is stored after the drag block
PipelineSteps_PinchLast(click, modular) ==
    << "filter", "snap", "setCursorPos", "classifyPinch" >>
        \o (IF click THEN << "click" >> ELSE << >>)
        \o (IF modular THEN << "classifyFist", "drag" >> ELSE << >>)
        \o << "setIsPinching", "lastCursorPos" >>

\* the statements of the hand block in the order they execute: sensitivity
\* mapping and smoothing, snap logic, setCursorPos, pinch distance, the click
\* when it fires, setIsPinching, the modular block (fist heuristic, drag),
\* lastCursorPosRef
PipelineSteps(click, modular) ==
    << "filter", "snap", "setCursorPos", "classifyPinch" >>
        \o (IF click THEN << "click" >> ELSE << >>)
        \o << "setIsPinching" >>
        \o (IF modular THEN << "classifyFist", "drag" >> ELSE << >>)
        \o << "lastCursorPos" >>

\* mutant of HandBlock: a frame without a hand resets pinch and snap
HandBlock_ResetOnGap(in, st, closure, sens, wn, modular, mountedT, mountedP) ==
    IF in.pose = "none"
    THEN [st EXCEPT !.click = FALSE, !.pinching = FALSE, !.snap = Unsnapped, !.hl = {},
                    !.steps = << >>]
    ELSE LET lm == Landmarks(in)
             sm == Smooth(st.smoothed, TargetPos(lm[8], sens, wn))
             sn == SnapEngine(st.snap, sm, mountedT, st.hl)
             pinchNow == IsPinchNow(lm)
             dr == DragCoordinator(modular, modular /\ isFist(lm), st.active,
                                   sn.final, st.last, st.pos, mountedP)
         IN [smoothed |-> sm, snap |-> sn.snap, hl |-> sn.hl, cursor |-> sn.final,
             click |-> ClickFires(pinchNow, closure.isPinching),
             pinching |-> pinchNow,
             active |-> dr.active, pos |-> dr.pos, last |-> sn.final,
             shown |-> IF modular /\ dr.active # st.lastActive THEN dr.active ELSE st.shown,
             lastActive |-> IF modular THEN dr.active ELSE st.lastActive,
             steps |-> PipelineSteps(ClickFires(pinchNow, closure.isPinching), modular)]

\* mutant of HandBlock: dispatching a click releases the snap
HandBlock_ClickUnsnaps(in, st, closure, sens, wn, modular, mountedT, mountedP) ==
    IF in.pose = "none"
    THEN [st EXCEPT !.click = FALSE, !.steps = << >>]
    ELSE LET lm == Landmarks(in)
             sm == Smooth(st.smoothed, TargetPos(lm[8], sens, wn))
             sn == SnapEngine(st.snap, sm, mountedT, st.hl)
             pinchNow == IsPinchNow(lm)
             dr == DragCoordinator(modular, modular /\ isFist(lm), st.active,
                                   sn.final, st.last, st.pos, mountedP)
             click == ClickFires(pinchNow, closure.isPinching)
         IN [smoothed |-> sm, snap |-> IF click THEN Unsnapped ELSE sn.snap,
             hl |-> IF click THEN {} ELSE sn.hl, cursor |-> sn.final,
             click |-> click,
             pinching |-> pinchNow,
             active |-> dr.active, pos |-> dr.pos, last |-> sn.final,
             shown |-> IF modular /\ dr.active # st.lastActive THEN dr.active ELSE st.shown,
             lastActive |-> IF modular THEN dr.active ELSE st.lastActive,
             steps |-> PipelineSteps(click, modular)]

\* the hand-tracking block for a detector result: the landmarks of a hand or
\* none; st is the gesture state it reads, the result is the state it leaves
HandBlock(in, st, closure, sens, wn, modular, mountedT, mountedP) ==
    IF in.pose = "none"
    THEN [st EXCEPT !.click = FALSE, !.steps = << >>]
    ELSE LET lm == Landmarks(in)
             sm == Smooth(st.smoothed, TargetPos(lm[8], sens, wn))
             sn == SnapEngine(st.snap, sm, mountedT, st.hl)
             pinchNow == IsPinchNow(lm)
             dr == DragCoordinator(modular, modular /\ isFist(lm), st.active,
                                   sn.final, st.last, st.pos, mountedP)
         IN [smoothed |-> sm, snap |-> sn.snap, hl |-> sn.hl, cursor |-> sn.final,
             click |-> ClickFires(pinchNow, closure.isPinching),
             pinching |-> pinchNow,
             active |-> dr.active, pos |-> dr.pos, last |-> sn.final,
             \* setActiveDragElement only on change, inside the modular block
             shown |-> IF modular /\ dr.active # st.lastActive THEN dr.active ELSE st.shown,
             lastActive |-> IF modular THEN dr.active ELSE st.lastActive,
             steps |-> PipelineSteps(ClickFires(pinchNow, closure.isPinching), modular)]

(* ------------------------------ widgets ------------------------------ *)
\* no keydown event has been handled
NoKey == [handled |-> FALSE]

\* the toast container is empty: no toast has been added
NoToast == [stage |-> "none"]
NoToasts == [i \in 1..MaxToasts |-> NoToast]

\* the printer window is not mounted
PrinterClosed == [mounted |-> FALSE]

(* ------------------------------- Init --------------------------------- *)
\* no iteration has run: nothing was sent, and no transmission lies within
\* the last SendEvery iterations
NoIteration == [ran |-> FALSE, dist |-> SendEvery, rst |-> FALSE]

InitEngine ==
    /\ isVideoOn = FALSE /\ isVideoOnRef = FALSE
    /\ isHandTrackingEnabled = FALSE /\ isHandTrackingEnabledRef = FALSE
    /\ isModularMode = FALSE /\ isModularModeRef = FALSE
    /\ cursorSensitivity = InitSensitivity /\ cursorSensitivityRef = InitSensitivity
    /\ win = InitWin
    \* centerElements runs on mount
    /\ elementPositions = centerElements(MountPositions(InitWin), InitWin)
    /\ activeDragElement = NoPanel
    /\ activeDragElementRef = NoPanel /\ lastActiveDragElementRef = NoPanel
    /\ lastCursorPosRef = Pt(0, 0)
    /\ cursorPos = Pt(0, 0) /\ isPinching = FALSE
    /\ smoothedCursorPosRef = Pt(0, 0) /\ snapStateRef = Unsnapped
    /\ highlighted = {}
    /\ cadData = FALSE /\ browserImage = FALSE
    /\ handLandmarkerRef = FALSE
    /\ lastVideoTimeRef = -1
    /\ pendingStarts = << >> /\ rafQueue = << >>
    /\ lastFrame = "none" /\ clicked = "none"
    /\ dragOrigin = Pt(0, 0) /\ dragStartCursor = Pt(0, 0)
    /\ frameSteps = << >> /\ frameInput = NoHand
    /\ landmarkerFailed = FALSE
    /\ isConnected = TRUE /\ frameCountRef = 0 /\ lastIter = NoIteration
    \* no key pressed yet, no toast added, the printer window not opened
    /\ keys = NoKey /\ toasts = NoToasts /\ printer = PrinterClosed

\* the state after the first render and its mount effects
Init ==
    /\ InitEngine
    /\ mapBench = IdleMap /\ smoothBench = IdleSmooth /\ fistBench = IdleFist
    /\ snapBench = IdleSnap /\ trackBench = IdleTrack

(* --------------------------- UI / environment ------------------------- *)
\* a step that runs no predictWebcam callback: no frame outcome, no click;
\* the record of the current drag session is kept
NoFrame ==
    /\ lastFrame' = "none" /\ clicked' = "none"
    /\ frameSteps' = << >> /\ frameInput' = NoHand
    /\ UNCHANGED << dragOrigin, dragStartCursor >>
    /\ UNCHANGED << landmarkerFailed, throttleVars, benchVars, widgetVars >>

\* the values a predictWebcam created by the current render captures
Closure == [isPinching |-> isPinching, isConnected |-> isConnected]

\* stopVideo
stopVideo == isVideoOn' = FALSE /\ isVideoOnRef' = FALSE

\* toggleVideo by a mouse click: stopVideo, or startVideo up to its await
ToggleVideo ==
    /\ IF isVideoOn
       THEN stopVideo /\ UNCHANGED pendingStarts
       ELSE /\ Len(pendingStarts) + Len(rafQueue) < MaxLoops
            /\ pendingStarts' = Append(pendingStarts, Closure)
            /\ UNCHANGED << isVideoOn, isVideoOnRef >>
    /\ UNCHANGED << isHandTrackingEnabled, isModularMode, cursorSensitivity, elementPositions,
                    activeDragElement, cursorPos, isPinching, cadData, browserImage,
                    isHandTrackingEnabledRef, isModularModeRef, cursorSensitivityRef,
                    handLandmarkerRef, lastVideoTimeRef, activeDragElementRef,
                    lastActiveDragElementRef, lastCursorPosRef, smoothedCursorPosRef,
                    snapStateRef, domVars, rafQueue >>
    /\ NoFrame

\* startVideo after getUserMedia resolved: flag set, first frame requested
CameraGranted ==
    /\ pendingStarts # << >>
    /\ pendingStarts' = Tail(pendingStarts)
    /\ isVideoOn' = TRUE /\ isVideoOnRef' = TRUE
    /\ rafQueue' = Append(rafQueue, Head(pendingStarts))
    /\ UNCHANGED << isHandTrackingEnabled, isModularMode, cursorSensitivity, elementPositions,
                    activeDragElement, cursorPos, isPinching, cadData, browserImage,
                    isHandTrackingEnabledRef, isModularModeRef, cursorSensitivityRef,
                    handLandmarkerRef, lastVideoTimeRef, activeDragElementRef,
                    lastActiveDragElementRef, lastCursorPosRef, smoothedCursorPosRef,
                    snapStateRef, domVars >>
    /\ NoFrame

\* startVideo's catch: getUserMedia rejected
CameraDenied ==
    /\ pendingStarts # << >>
    /\ pendingStarts' = Tail(pendingStarts)
    /\ UNCHANGED << reactVars, refVars, domVars, rafQueue >>
    /\ NoFrame

\* onToggleHand by a mouse click; the sync effect copies the state to the ref
ToggleHand ==
    /\ isHandTrackingEnabled' = ~isHandTrackingEnabled
    /\ isHandTrackingEnabledRef' = ~isHandTrackingEnabled
    /\ UNCHANGED << isVideoOn, isModularMode, cursorSensitivity, elementPositions,
                    activeDragElement, cursorPos, isPinching, cadData, browserImage,
                    isVideoOnRef, isModularModeRef, cursorSensitivityRef,
                    handLandmarkerRef, lastVideoTimeRef, activeDragElementRef,
                    lastActiveDragElementRef, lastCursorPosRef, smoothedCursorPosRef,
                    snapStateRef, domVars, loopVars >>
    /\ NoFrame

\* onToggleLayout by a mouse click
ToggleLayout ==
    /\ isModularMode' = ~isModularMode
    /\ isModularModeRef' = ~isModularMode
    /\ UNCHANGED << isVideoOn, isHandTrackingEnabled, cursorSensitivity, elementPositions,
                    activeDragElement, cursorPos, isPinching, cadData, browserImage,
                    isVideoOnRef, isHandTrackingEnabledRef, cursorSensitivityRef,
                    handLandmarkerRef, lastVideoTimeRef, activeDragElementRef,
                    lastActiveDragElementRef, lastCursorPosRef, smoothedCursorPosRef,
                    snapStateRef, domVars, loopVars >>
    /\ NoFrame

\* initHandLandmarker threw (model download, wasm or createFromOptions): the
\* catch block logs the error and adds a system message; the ref stays null
LandmarkerFailed ==
    /\ ~handLandmarkerRef /\ ~landmarkerFailed
    /\ landmarkerFailed' = TRUE
    /\ lastFrame' = "none" /\ clicked' = "none"
    /\ frameSteps' = << >> /\ frameInput' = NoHand
    /\ UNCHANGED << reactVars, refVars, domVars, loopVars, dragOrigin, dragStartCursor,
                    throttleVars, benchVars, widgetVars >>

\* initHandLandmarker resolved
LandmarkerReady ==
    /\ ~handLandmarkerRef /\ ~landmarkerFailed
    /\ handLandmarkerRef' = TRUE
    /\ UNCHANGED << reactVars, isVideoOnRef, isHandTrackingEnabledRef, isModularModeRef,
                    cursorSensitivityRef, lastVideoTimeRef, activeDragElementRef,
                    lastActiveDragElementRef, lastCursorPosRef, smoothedCursorPosRef,
                    snapStateRef, domVars, loopVars >>
    /\ NoFrame

\* window 'resize': centerElements; the window is resized from its size at
\* mount to one of the other sizes
Resize ==
    /\ win = InitWin
    /\ \E wn \in WinSizes \ {win} :
          /\ win' = wn
          /\ elementPositions' = centerElements(elementPositions, wn)
    /\ UNCHANGED << isVideoOn, isHandTrackingEnabled, isModularMode, cursorSensitivity,
                    activeDragElement, cursorPos, isPinching, cadData, browserImage,
                    refVars, highlighted, loopVars >>
    /\ NoFrame

\* socket 'cad_data'
SocketCadData ==
    /\ cadData' = TRUE
    /\ elementPositions' = socketPlacePanel(elementPositions, "cad", win,
                                            Pt((win.w \div 2) + 200, win.h \div 2))
    /\ UNCHANGED << isVideoOn, isHandTrackingEnabled, isModularMode, cursorSensitivity,
                    activeDragElement, cursorPos, isPinching, browserImage,
                    refVars, domVars, loopVars >>
    /\ NoFrame

\* socket 'browser_frame' carrying an image
SocketBrowserFrame ==
    /\ browserImage' = TRUE
    /\ elementPositions' = socketPlacePanel(elementPositions, "browser", win,
                                            Pt((win.w \div 2) - 300, win.h \div 2))
    /\ UNCHANGED << isVideoOn, isHandTrackingEnabled, isModularMode, cursorSensitivity,
                    activeDragElement, cursorPos, isPinching, cadData,
                    refVars, domVars, loopVars >>
    /\ NoFrame

\* BrowserWindow onClose by a mouse click: the window and its close button
\* are unmounted
CloseBrowser ==
    /\ browserImage
    /\ browserImage' = FALSE
    /\ highlighted' = highlighted \ {"browserClose"}
    /\ UNCHANGED << isVideoOn, isHandTrackingEnabled, isModularMode, cursorSensitivity,
                    elementPositions, activeDragElement, cursorPos, isPinching, cadData,
                    refVars, win, loopVars >>
    /\ NoFrame

(* ------------------------- predictWebcam frames ----------------------- *)
\* the gesture state as the hand-tracking block reads it
GestureState ==
    [smoothed |-> smoothedCursorPosRef, snap |-> snapStateRef, hl |-> highlighted,
     cursor |-> cursorPos, click |-> FALSE, pinching |-> isPinching,
     active |-> activeDragElementRef, pos |-> elementPositions, last |-> lastCursorPosRef,
     shown |-> activeDragElement, lastActive |-> lastActiveDragElementRef,
     steps |-> << >>]

\* mutant of Reschedule: the callback returns without requesting a frame
Reschedule_Never(queue, videoOnRef) == Tail(queue)

\* mutant of Reschedule: the next frame is requested without the flag check
Reschedule_Always(queue, videoOnRef) == Append(Tail(queue), Head(queue))

\* the callback at the head of the queue has run to its end:
\* if (isVideoOnRef.current) requestAnimationFrame(predictWebcam)
Reschedule(queue, videoOnRef) ==
    IF videoOnRef THEN Append(Tail(queue), Head(queue)) ELSE Tail(queue)

\* the scheduled callback runs after stopVideo: it returns at the first guard
FrameCancelled ==
    /\ rafQueue # << >>
    /\ ~isVideoOnRef
    /\ rafQueue' = Tail(rafQueue)
    /\ lastFrame' = "cancelled" /\ clicked' = "none"
    /\ frameSteps' = << >> /\ frameInput' = NoHand
    /\ UNCHANGED << reactVars, refVars, domVars, pendingStarts, dragOrigin, dragStartCursor >>
    /\ UNCHANGED << landmarkerFailed, throttleVars, benchVars, widgetVars >>

\* the video has no valid dimensions yet: reschedule and return
FrameInvalidDims ==
    /\ rafQueue # << >>
    /\ isVideoOnRef
    /\ rafQueue' = Reschedule(rafQueue, TRUE)
    /\ lastFrame' = "invalid" /\ clicked' = "none"
    /\ frameSteps' = << >> /\ frameInput' = NoHand
    /\ UNCHANGED << reactVars, refVars, domVars, pendingStarts, dragOrigin, dragStartCursor >>
    /\ UNCHANGED << landmarkerFailed, throttleVars, benchVars, widgetVars >>

\* videoRef.current.currentTime as a callback may read it: the video still
\* shows the frame of the last detection, or it shows the next frame
CurrentTimes(lastTime) == { t \in 0..MaxVideoTime : t >= lastTime /\ t <= lastTime + 1 }

\* mutant of ShouldDetect: the timestamp is not compared
ShouldDetect_NoDedup(trackingRef, landmarker, currentTime, lastTime) ==
    trackingRef /\ landmarker

\* isHandTrackingEnabledRef.current && handLandmarkerRef.current &&
\* videoRef.current.currentTime !== lastVideoTimeRef.current
ShouldDetect(trackingRef, landmarker, currentTime, lastTime) ==
    trackingRef /\ landmarker /\ currentTime # lastTime

\* the detection guard fails: tracking is off or the landmarker is missing
\* ("nodetect"), or the video time is that of the last detection ("dup")
FrameNoDetect ==
    /\ rafQueue # << >>
    /\ isVideoOnRef
    /\ \E t \in CurrentTimes(lastVideoTimeRef) :
          ~ShouldDetect(isHandTrackingEnabledRef, handLandmarkerRef, t, lastVideoTimeRef)
    /\ rafQueue' = Reschedule(rafQueue, isVideoOnRef)
    /\ lastFrame' = IF isHandTrackingEnabledRef /\ handLandmarkerRef THEN "dup" ELSE "nodetect"
    /\ clicked' = "none"
    /\ frameSteps' = << >> /\ frameInput' = NoHand
    /\ UNCHANGED << reactVars, refVars, domVars, pendingStarts, dragOrigin, dragStartCursor >>
    /\ UNCHANGED << landmarkerFailed, throttleVars, benchVars, widgetVars >>

\* a frame on which the detector runs, with its result in (a hand or none)
FrameDetect(in, name) ==
    /\ rafQueue # << >>
    /\ isVideoOnRef
    /\ \E t \in CurrentTimes(lastVideoTimeRef) :
          /\ ShouldDetect(isHandTrackingEnabledRef, handLandmarkerRef, t, lastVideoTimeRef)
          /\ lastVideoTimeRef' = t
    /\ \E r \in { HandBlock(in, GestureState, Head(rafQueue), cursorSensitivityRef, win,
                           isModularModeRef, MountedTargets(browserImage),
                           MountedPanels(cadData, browserImage)) } :
       \* clickable.click() runs the handler of the committed render
       \E hit \in { IF r.click THEN HitTarget(r.cursor, MountedTargets(browserImage))
                    ELSE "none" } :
           /\ smoothedCursorPosRef' = r.smoothed
           /\ snapStateRef' = r.snap
           /\ cursorPos' = r.cursor
           /\ isPinching' = r.pinching
           /\ activeDragElementRef' = r.active
           /\ lastActiveDragElementRef' = r.lastActive
           /\ activeDragElement' = r.shown
           /\ elementPositions' = r.pos
           /\ lastCursorPosRef' = r.last
           /\ clicked' = hit
           /\ frameSteps' = r.steps
           /\ frameInput' = in
           \* handlers run by the click: onToggleHand, toggleVideo (stopVideo,
           \* the video being on), the browser window's onClose
           /\ isHandTrackingEnabled' =
                 IF hit = "handToggle" THEN ~isHandTrackingEnabled ELSE isHandTrackingEnabled
           /\ isHandTrackingEnabledRef' = isHandTrackingEnabled'
           /\ isVideoOn' = (hit # "videoToggle") /\ isVideoOnRef' = (hit # "videoToggle")
           /\ browserImage' = IF hit = "browserClose" THEN FALSE ELSE browserImage
           /\ highlighted' = IF hit = "browserClose" THEN r.hl \ {"browserClose"} ELSE r.hl
           \* if (isVideoOnRef.current) requestAnimationFrame(predictWebcam)
           /\ rafQueue' = Reschedule(rafQueue, hit # "videoToggle")
           /\ dragOrigin' = IF r.active = NoPanel THEN Pt(0, 0)
                            ELSE IF activeDragElementRef = NoPanel
                                 THEN elementPositions[r.active] ELSE dragOrigin
           /\ dragStartCursor' = IF r.active = NoPanel THEN Pt(0, 0)
                                 ELSE IF activeDragElementRef = NoPanel
                                      THEN r.cursor ELSE dragStartCursor
    /\ lastFrame' = name
    /\ UNCHANGED << isModularMode, cursorSensitivity, cadData, isModularModeRef,
                    cursorSensitivityRef, handLandmarkerRef, win, pendingStarts >>
    /\ UNCHANGED << landmarkerFailed, throttleVars, benchVars, widgetVars >>

FrameHand == \E in \in HandInputs : FrameDetect(in, "hand")

FrameNoHand == FrameDetect(NoHand, "nohand")

\* a frame on which the hand is a fist and pinches at once
FrameFistPinch == \E in \in FistPinchInputs : FrameDetect(in, "hand")

(* ---------------------------- specification --------------------------- *)
Next ==
    \/ ToggleVideo
    \/ CameraGranted
    \/ CameraDenied
    \/ ToggleHand
    \/ ToggleLayout
    \/ LandmarkerReady
    \/ LandmarkerFailed
    \/ Resize
    \/ SocketCadData
    \/ SocketBrowserFrame
    \/ CloseBrowser
    \/ FrameCancelled
    \/ FrameInvalidDims
    \/ FrameNoDetect
    \/ FrameHand
    \/ FrameNoHand

Spec == Init /\ [][Next]_vars

(* ------------------------------- claims ------------------------------- *)
\* a step in which the detector ran and found a hand / found none
HandFrameStep == lastVideoTimeRef' # lastVideoTimeRef /\ lastFrame' = "hand"
NoHandFrameStep == lastVideoTimeRef' # lastVideoTimeRef /\ lastFrame' = "nohand"
\* a step in which a scheduled predictWebcam callback ran
FrameRan == FrameCancelled \/ FrameInvalidDims \/ FrameNoDetect \/ FrameHand \/ FrameNoHand

\* C1: click dispatch is edge-triggered: a processed hand frame dispatches
\* a click if and only if pinch is true on it and was false on the previously
\* processed hand frame (isPinching holds the pinch of that frame).
C1_ClickEdgeTriggered ==
    [][HandFrameStep => ((clicked' # "none") <=> (isPinching' /\ ~isPinching))]_vars

\* C2: snap hysteresis: the engine leaves Snapped only on a hand frame whose
\* smoothed cursor is farther than UNSNAP_THRESHOLD from the anchor; at any
\* distance up to it, also above SNAP_THRESHOLD, it stays Snapped.
C2_SnapHysteresis ==
    [][(snapStateRef.isSnapped /\ snapStateRef' # snapStateRef)
          => /\ HandFrameStep
             /\ snapStateRef' = Unsnapped
             /\ Dist2(smoothedCursorPosRef', snapStateRef.snapPos)
                   > UNSNAP_THRESHOLD * UNSNAP_THRESHOLD]_vars

\* C2 witness: Snapped with the smoothed cursor in the hysteresis gap
C2_Witness ==
    /\ snapStateRef.isSnapped
    /\ lastFrame = "hand"
    /\ Dist2(smoothedCursorPosRef, snapStateRef.snapPos) > SNAP_THRESHOLD * SNAP_THRESHOLD
    /\ Dist2(smoothedCursorPosRef, snapStateRef.snapPos) <= UNSNAP_THRESHOLD * UNSNAP_THRESHOLD

\* C3: drag delta accumulation: after every frame of a drag the dragged
\* panel's position is its position when the drag started plus the cursor's
\* displacement since the frame on which the drag started.
C3_DragDeltaAccumulation ==
    [][(HandFrameStep /\ isModularModeRef /\ activeDragElementRef' # NoPanel)
          => elementPositions'[activeDragElementRef'] =
                Pt(dragOrigin'.x + (lastCursorPosRef'.x - dragStartCursor'.x),
                   dragOrigin'.y + (lastCursorPosRef'.y - dragStartCursor'.y))]_vars

\* C4: drag mutual exclusion: the active drag element is one registered panel
\* or none, and a frame changes the stored position of no panel other than
\* the panel of the current drag session.
C4_DragMutualExclusion ==
    [][(HandFrameStep \/ NoHandFrameStep)
          => /\ activeDragElementRef' \in Panels \cup {NoPanel}
             /\ \A p \in Panels :
                   elementPositions'[p] # elementPositions[p] => p = activeDragElementRef']_vars

\* C4 witness: a drag is active and has moved its panel while another panel
\* is also under the cursor
C4_Witness ==
    /\ activeDragElementRef # NoPanel
    /\ elementPositions[activeDragElementRef] # dragOrigin
    /\ \E p \in Panels \ {activeDragElementRef} :
          InRect(lastCursorPosRef, PanelRect(p, elementPositions))

\* C5 (as claimed): a panel position changes only by a drag frame.
C5_OnlyDragWritesPositions ==
    [][elementPositions' # elementPositions
          => (HandFrameStep /\ activeDragElementRef' # NoPanel)]_vars

\* C5 (amended): a panel position changes only by a frame of an active drag,
\* which changes the dragged panel alone, or by a window resize, which
\* re-centres visualizer, chat and tools; socket messages and the mode and
\* tracking toggles change none.
C5_DragOrResizeWritesPositions ==
    [][elementPositions' # elementPositions
          => \/ /\ HandFrameStep /\ activeDragElementRef' # NoPanel
                /\ \A p \in Panels \ {activeDragElementRef'} :
                      elementPositions'[p] = elementPositions[p]
             \/ /\ win' # win
                /\ \A p \in Panels \ {"visualizer", "chat", "tools"} :
                      elementPositions'[p] = elementPositions[p]]_vars

\* C5 witness: both socket messages have arrived, the window was resized and
\* a drag has moved a panel
C5_Witness ==
    /\ cadData /\ browserImage /\ win # InitWin
    /\ activeDragElementRef # NoPanel
    /\ elementPositions[activeDragElementRef] # dragOrigin

\* C6: when the snapped element is no longer mounted, the next hand frame
\* leaves the engine Unsnapped with no element highlighted.
C6_RemovedTargetUnsnaps ==
    [][(HandFrameStep /\ snapStateRef.isSnapped
           /\ snapStateRef.element \notin MountedTargets(browserImage))
          => (~snapStateRef'.isSnapped /\ highlighted' = {})]_vars

\* C7: a processed frame without a hand changes no gesture state and
\* dispatches no click.
C7_NoHandFrameChangesNothing ==
    [][NoHandFrameStep => (UNCHANGED gestureVars /\ clicked' = "none")]_vars

\* C7 witness: a frame without a hand was processed while the engine was
\* Snapped and pinching away from the origin
C7_Witness ==
    /\ lastFrame = "nohand"
    /\ snapStateRef.isSnapped /\ isPinching
    /\ smoothedCursorPosRef # Pt(0, 0)

\* C8 (as claimed): a callback that runs while hand tracking is disabled
\* requests no further iteration.
C8_NoRequestAfterTrackingDisabled ==
    [][(FrameRan /\ ~isHandTrackingEnabledRef) => rafQueue' = Tail(rafQueue)]_vars

\* C8 (amended): the flag checked is isVideoOnRef: a callback that ends with
\* the video flag unset requests no further iteration, and a request can only
\* be made with the flag set; disabling hand tracking alone does not stop the
\* loop.
C8_NoRequestAfterVideoStopped ==
    [][/\ (~isVideoOnRef' /\ FrameRan) => rafQueue' = Tail(rafQueue)
       /\ (rafQueue' # rafQueue /\ ~FrameRan) => isVideoOnRef']_vars

\* C8 witness: the video was stopped and the callback that was pending has
\* returned without requesting another
C8_Witness ==
    /\ ~isVideoOnRef /\ rafQueue = << >> /\ pendingStarts = << >>
    /\ lastFrame = "cancelled"

\* C9: the frame in which a gesture click disables tracking changes nothing
\* the callback writes after the click (pinch flag, drag session, panel
\* positions, last cursor position), and frames that start with tracking
\* disabled change no gesture state.
C9_NoMutationAfterDisable ==
    [][/\ (HandFrameStep /\ (~isHandTrackingEnabled' \/ ~isVideoOn'))
          => /\ isPinching' = isPinching
             /\ activeDragElementRef' = activeDragElementRef
             /\ elementPositions' = elementPositions
             /\ lastCursorPosRef' = lastCursorPosRef
       /\ (FrameRan /\ (~isHandTrackingEnabled \/ ~isVideoOn)) => UNCHANGED gestureVars]_vars

\* C10: when tracking (the hand-tracking switch or the video) has just been
\* enabled, the engine is Unsnapped with nothing highlighted, the drag
\* session is idle and the pinch flag is false.
C10_NeutralAfterEnable ==
    [][((~isHandTrackingEnabled /\ isHandTrackingEnabled') \/ (~isVideoOn /\ isVideoOn'))
          => /\ ~snapStateRef'.isSnapped /\ highlighted' = {}
             /\ activeDragElementRef' = NoPanel /\ activeDragElement' = NoPanel
             /\ ~isPinching']_vars

\* C11: the detector is invoked on an iteration only if the video time
\* differs from the time of the last detected frame; an iteration that reads
\* the same time skips detection and changes no cursor, snap, click or drag
\* state.
C11_TimestampDedup ==
    [][/\ lastFrame' \in {"hand", "nohand"} => lastVideoTimeRef' # lastVideoTimeRef
       /\ lastFrame' = "dup"
             => /\ lastVideoTimeRef' = lastVideoTimeRef
                /\ UNCHANGED gestureVars
                /\ clicked' = "none"]_vars

\* C11 witness: with tracking on and the landmarker loaded, a callback read
\* the time of the last detection while the engine was Snapped
C11_Witness ==
    /\ lastFrame = "dup"
    /\ lastVideoTimeRef >= 0
    /\ snapStateRef.isSnapped

\* C12: a callback that finds the video without valid dimensions changes no
\* state, does not reach the detector, and requests exactly one further
\* iteration.
C12_InvalidDimsSkipped ==
    [][lastFrame' = "invalid"
          => /\ UNCHANGED << reactVars, refVars, domVars, pendingStarts >>
             /\ rafQueue' = Append(Tail(rafQueue), Head(rafQueue))
             /\ Len(rafQueue') = Len(rafQueue)
             /\ clicked' = "none"]_vars

\* C12 witness: the dimension guard returned although tracking was on, the
\* landmarker loaded and a new video time could have been read
C12_Witness ==
    /\ lastFrame = "invalid"
    /\ isHandTrackingEnabledRef /\ handLandmarkerRef
    /\ lastVideoTimeRef < MaxVideoTime
    /\ rafQueue # << >>

\* C13: there is never more than one pending scheduled iteration of the
\* per-frame callback.
C13_SingleLoop == Len(rafQueue) <= 1

\* position of a step in the steps of the last hand frame, 0 if it did not run
StepAt(name) ==
    IF \E i \in 1..Len(frameSteps) : frameSteps[i] = name
    THEN CHOOSE i \in 1..Len(frameSteps) : frameSteps[i] = name
    ELSE 0

\* step a ran before step b, when both ran
Before(a, b) == (StepAt(a) > 0 /\ StepAt(b) > 0) => StepAt(a) < StepAt(b)

TargetIndex(t) == CHOOSE i \in 1..Len(TargetOrder) : TargetOrder[i] = t

\* the mounted targets nearer than SNAP_THRESHOLD to p
InSnapRange(p, mounted) ==
    { t \in mounted : Dist2(p, TargetCentre(t)) < SNAP_THRESHOLD * SNAP_THRESHOLD }

\* C15: a hand frame processed in the Unsnapped state ends Snapped if and
\* only if some mounted target's centre is nearer than SNAP_THRESHOLD to the
\* smoothed cursor; the anchor is then the centre of a nearest target, and
\* that target alone carries the emphasis.
C15_SnapInRule ==
    [][(HandFrameStep /\ ~snapStateRef.isSnapped)
          => /\ snapStateRef'.isSnapped
                   <=> InSnapRange(smoothedCursorPosRef', MountedTargets(browserImage)) # {}
             /\ snapStateRef'.isSnapped
                   => /\ snapStateRef'.element \in MountedTargets(browserImage)
                      /\ snapStateRef'.snapPos = TargetCentre(snapStateRef'.element)
                      /\ \A t \in MountedTargets(browserImage) :
                            Dist2(smoothedCursorPosRef', snapStateRef'.snapPos)
                               <= Dist2(smoothedCursorPosRef', TargetCentre(t))
                      /\ highlighted' \subseteq {snapStateRef'.element}
                      /\ snapStateRef'.element \in MountedTargets(browserImage')
                            => highlighted' = {snapStateRef'.element}
             /\ ~snapStateRef'.isSnapped => highlighted' = {}]_vars

\* C15 witness: a hand frame has snapped the cursor with three targets
\* mounted, the smoothed cursor being off the anchor
C15_Witness ==
    /\ lastFrame = "hand"
    /\ snapStateRef.isSnapped /\ browserImage
    /\ lastCursorPosRef = snapStateRef.snapPos
    /\ smoothedCursorPosRef # snapStateRef.snapPos
    /\ highlighted = {snapStateRef.element}
    /\ frameSteps # << >>
    /\ Dist2(smoothedCursorPosRef, snapStateRef.snapPos) < SNAP_THRESHOLD * SNAP_THRESHOLD

\* C16: when several mounted targets are at the same minimum distance in
\* snap-in range, the one earliest in scan order is chosen; and a frame that
\* starts and ends Snapped keeps the chosen target and its anchor.
C16_SnapTieBreak ==
    [][HandFrameStep
          => /\ (~snapStateRef.isSnapped /\ snapStateRef'.isSnapped)
                   => \A t \in MountedTargets(browserImage) :
                         Dist2(smoothedCursorPosRef', TargetCentre(t))
                               = Dist2(smoothedCursorPosRef', snapStateRef'.snapPos)
                            => TargetIndex(snapStateRef'.element) <= TargetIndex(t)
             /\ (snapStateRef.isSnapped /\ snapStateRef'.isSnapped)
                   => snapStateRef' = snapStateRef]_vars

\* C16 witness: the cursor snapped to a target while a later target in scan
\* order was at the same distance
C16_Witness ==
    /\ lastFrame = "hand"
    /\ snapStateRef.isSnapped
    /\ \E t \in MountedTargets(browserImage) \ {snapStateRef.element} :
          /\ Dist2(smoothedCursorPosRef, TargetCentre(t))
                = Dist2(smoothedCursorPosRef, snapStateRef.snapPos)
          /\ TargetIndex(snapStateRef.element) < TargetIndex(t)

\* C17: on a hand frame that ends Snapped the displayed cursor position and
\* the position at which a click is resolved are the anchor; on a hand frame
\* that ends Unsnapped they are the smoothed cursor position.
C17_EffectiveCursor ==
    [][HandFrameStep
          => \E eff \in { IF snapStateRef'.isSnapped THEN snapStateRef'.snapPos
                          ELSE smoothedCursorPosRef' } :
                /\ cursorPos' = eff
                /\ clicked' # "none"
                      => clicked' = HitTarget(eff, MountedTargets(browserImage))]_vars

\* C17 witness: a hand frame ended Snapped with the smoothed cursor off the
\* anchor and dispatched a click on the snapped element
C17_Witness ==
    /\ lastFrame = "hand"
    /\ snapStateRef.isSnapped
    /\ smoothedCursorPosRef # snapStateRef.snapPos
    /\ cursorPos = snapStateRef.snapPos
    /\ clicked = snapStateRef.element

\* position of a panel in the order of the collision scan
PanelIndex(p) == CHOOSE i \in 1..Len(elements) : elements[i] = p

\* the mounted panels whose rectangle, at the positions pos, contains point c
PanelsUnder(c, pos, mounted) == { p \in mounted : InRect(c, PanelRect(p, pos)) }

\* C18: on every frame that continues a drag, the delta applied to the
\* dragged panel is the change of the unpinned smoothed cursor position since
\* the previous hand frame, also while the Snap Engine is Snapped.
C18_DragFollowsSmoothedCursor ==
    [][(HandFrameStep /\ isModularModeRef
           /\ activeDragElementRef # NoPanel /\ activeDragElementRef' # NoPanel)
          => elementPositions'[activeDragElementRef'] =
                Pt(elementPositions[activeDragElementRef'].x
                      + (smoothedCursorPosRef'.x - smoothedCursorPosRef.x),
                   elementPositions[activeDragElementRef'].y
                      + (smoothedCursorPosRef'.y - smoothedCursorPosRef.y))]_vars

\* C19: from Idle a drag begins on a hand frame only if modular mode is on,
\* the hand is a fist and the effective cursor lies inside a mounted panel;
\* when the hand is a fist and no mounted panel contains the cursor, the
\* coordinator stays Idle and no panel position changes.
C19_DragStart ==
    [][(HandFrameStep /\ activeDragElementRef = NoPanel)
          => /\ activeDragElementRef' # NoPanel
                   => /\ isModularModeRef
                      /\ isFist(Landmarks(frameInput'))
                      /\ activeDragElementRef'
                            \in PanelsUnder(cursorPos', elementPositions,
                                            MountedPanels(cadData, browserImage))
             /\ (isFist(Landmarks(frameInput'))
                    /\ PanelsUnder(cursorPos', elementPositions,
                                   MountedPanels(cadData, browserImage)) = {})
                   => /\ activeDragElementRef' = NoPanel
                      /\ elementPositions' = elementPositions]_vars

\* C19 witness: in modular mode a fist frame with the cursor over no panel
\* has left the coordinator Idle
C19_Witness ==
    /\ lastFrame = "hand"
    /\ isModularModeRef
    /\ isFist(Landmarks(frameInput))
    /\ StepAt("drag") > 0
    /\ activeDragElementRef = NoPanel
    /\ PanelsUnder(cursorPos, elementPositions, MountedPanels(cadData, browserImage)) = {}

\* C20: the dragged panel is chosen on the starting frame, as the first
\* panel in the order of elements whose rectangle contains the cursor, and a
\* frame that continues the drag keeps it, also when the cursor has left its
\* rectangle or is inside another panel's.
C20_DragTargetChosenOnce ==
    [][HandFrameStep
          => /\ (activeDragElementRef = NoPanel /\ activeDragElementRef' # NoPanel)
                   => \A q \in PanelsUnder(cursorPos', elementPositions,
                                           MountedPanels(cadData, browserImage)) :
                         PanelIndex(activeDragElementRef') <= PanelIndex(q)
             /\ (activeDragElementRef # NoPanel /\ activeDragElementRef' # NoPanel)
                   => activeDragElementRef' = activeDragElementRef]_vars

\* C20 witness: on a later frame of a drag the cursor was outside the dragged
\* panel and inside another panel
C20_Witness ==
    /\ lastFrame = "hand"
    /\ activeDragElementRef # NoPanel
    /\ dragStartCursor # lastCursorPosRef
    /\ activeDragElementRef
          \notin PanelsUnder(cursorPos, elementPositions, MountedPanels(cadData, browserImage))
    /\ PanelsUnder(cursorPos, elementPositions, MountedPanels(cadData, browserImage)) # {}


(* ------------------------------- C21 ---------------------------------- *)
\* C21: a drag session exists only in modular mode: whenever modular mode is
\* off no panel is being dragged (neither the ref nor the rendered state names
\* a panel), so a drag cannot resume with its old panel when modular mode is
\* turned on again
C21_DragOnlyInModularMode ==
    ~isModularMode => (activeDragElementRef = NoPanel /\ activeDragElement = NoPanel)

(* ------------------------------- C22 ---------------------------------- *)
\* C22: the set of highlighted elements is exactly the snapped target while
\* the snap state is Snapped, and is empty while it is Unsnapped
C22_HighlightMatchesSnap ==
    highlighted = IF snapStateRef.isSnapped THEN {snapStateRef.element} ELSE {}

(* ------------------------------- C23 ---------------------------------- *)
\* {isVideoOn && isHandTrackingEnabled && (<div ... hand cursor ...>)}
OverlayRendered == isVideoOn /\ isHandTrackingEnabled

\* C23: once the initialisation of the hand landmarker has failed, the
\* tracking-enabled flag is never true, the cursor overlay is never rendered
\* and the detector is never invoked
C23_FailureDisablesTracking ==
    landmarkerFailed =>
        /\ ~isHandTrackingEnabled
        /\ ~OverlayRendered
        /\ lastFrame \notin {"hand", "nohand"}

(* ------------------------------- C24 ---------------------------------- *)
\* the engine with hands that may pinch and make a fist on the same frame, so
\* that a click and the Drag Coordinator meet in one callback
NextClick ==
    \/ ToggleVideo
    \/ CameraGranted
    \/ ToggleHand
    \/ ToggleLayout
    \/ LandmarkerReady
    \/ SocketBrowserFrame
    \/ FrameCancelled
    \/ FrameNoDetect
    \/ FrameHand
    \/ FrameFistPinch

SpecClick == Init /\ [][NextClick]_vars

\* the callback of this step dispatched a click
ClickStep == \E i \in 1..Len(frameSteps') : frameSteps'[i] = "click"

\* C24: the Click Dispatcher is side-effect only: on a hand frame that
\* dispatches a click, the smoothed cursor, the effective cursor, the snap
\* state and the drag session (dragged panel, panel positions) the frame leaves
\* are those the same frame leaves when the pinch was already held, that is
\* when no click is dispatched
C24_ClickSideEffectOnly ==
    [][(HandFrameStep /\ ClickStep) =>
          \E r0 \in { HandBlock(frameInput', GestureState,
                                [Head(rafQueue) EXCEPT !.isPinching = TRUE],
                                cursorSensitivityRef, win, isModularModeRef,
                                MountedTargets(browserImage),
                                MountedPanels(cadData, browserImage)) } :
              /\ ~r0.click
              /\ smoothedCursorPosRef' = r0.smoothed
              /\ cursorPos' = r0.cursor
              /\ snapStateRef' = r0.snap
              /\ activeDragElementRef' = r0.active
              /\ lastActiveDragElementRef' = r0.lastActive
              /\ elementPositions' = r0.pos
              /\ lastCursorPosRef' = r0.last]_vars

\* a click was dispatched on an element by a frame that left the engine
\* Snapped and a drag session running
C24_Witness ==
    /\ lastFrame = "hand"
    /\ clicked # "none"
    /\ StepAt("click") > 0
    /\ snapStateRef.isSnapped
    /\ activeDragElementRef # NoPanel

(* ------------------------------- C25 ---------------------------------- *)
\* togglePower by a mouse click: setIsConnected
TogglePower ==
    /\ isConnected' = ~isConnected
    /\ lastFrame' = "none" /\ clicked' = "none"
    /\ frameSteps' = << >> /\ frameInput' = NoHand
    /\ UNCHANGED << reactVars, refVars, domVars, loopVars, dragOrigin, dragStartCursor,
                    landmarkerFailed, frameCountRef, lastIter, benchVars,
                    widgetVars >>

\* mutant of ShouldSend: every frame is handed to the socket
ShouldSend_EveryFrame(connected, count) == connected

\* if (isConnected) { if (frameCountRef.current % 5 === 0) canvas.toBlob(...emit...) }
ShouldSend(connected, count) == connected /\ count % SendEvery = 0

\* frameCountRef.current++; if (now - lastFrameTimeRef.current >= 1000)
\* frameCountRef.current = 0
CountFrame(count, timeUp) == IF timeUp THEN 0 ELSE count + 1

\* the record of an iteration: what it did (sent, with the captured connection
\* flag conn and the counter value count it tested; detect: the detector ran;
\* timeUp: it reset the counter), the number of iterations back to the
\* transmission before it (gap, SendEvery standing for "SendEvery or more, or
\* none") and whether the counter was reset in between (gapReset); dist and
\* rst are the same two measured from the end of this iteration
IterationRecord(prev, sent, conn, count, detect, timeUp) ==
    [ran |-> TRUE, sent |-> sent, conn |-> conn, count |-> count, detect |-> detect,
     gap |-> Min(SendEvery, prev.dist + 1),
     gapReset |-> prev.rst,
     dist |-> IF sent THEN 0 ELSE Min(SendEvery, prev.dist + 1),
     rst |-> IF sent THEN timeUp ELSE (prev.rst \/ timeUp)]

\* a predictWebcam iteration that passes the dimension check and processes no
\* hand (detection skipped, or run without finding a hand, which leaves the
\* gesture state alone): throttled send, detection guard, frame counter and
\* FPS clock, reschedule
FrameCounted ==
    /\ rafQueue # << >>
    /\ isVideoOnRef
    /\ \E t \in CurrentTimes(lastVideoTimeRef), timeUp \in BOOLEAN :
          \E detect \in { ShouldDetect(isHandTrackingEnabledRef, handLandmarkerRef, t,
                                       lastVideoTimeRef) } :
              /\ (frameCountRef + 1 >= MaxFrameCount) => timeUp
              /\ lastIter' = IterationRecord(lastIter,
                     ShouldSend(Head(rafQueue).isConnected, frameCountRef),
                     Head(rafQueue).isConnected, frameCountRef, detect, timeUp)
              /\ lastVideoTimeRef' = IF detect THEN t ELSE lastVideoTimeRef
              /\ frameCountRef' = CountFrame(frameCountRef, timeUp)
              /\ lastFrame' = IF detect THEN "nohand"
                              ELSE IF isHandTrackingEnabledRef /\ handLandmarkerRef
                                   THEN "dup" ELSE "nodetect"
    /\ rafQueue' = Reschedule(rafQueue, isVideoOnRef)
    /\ clicked' = "none" /\ frameSteps' = << >> /\ frameInput' = NoHand
    /\ UNCHANGED << reactVars, isVideoOnRef, isHandTrackingEnabledRef, isModularModeRef,
                    cursorSensitivityRef, handLandmarkerRef, activeDragElementRef,
                    lastActiveDragElementRef, lastCursorPosRef, smoothedCursorPosRef,
                    snapStateRef, domVars, pendingStarts, dragOrigin, dragStartCursor,
                    landmarkerFailed, isConnected, benchVars, widgetVars >>

\* the video loop with its frame counter and the power switch
NextThrottle ==
    \/ ToggleVideo
    \/ CameraGranted
    \/ ToggleHand
    \/ LandmarkerReady
    \/ TogglePower
    \/ FrameCancelled
    \/ FrameInvalidDims
    \/ FrameCounted

SpecThrottle == Init /\ [][NextThrottle]_vars

\* C25 (as claimed): an iteration transmits exactly when the frame counter is
\* a multiple of 5, and of any 5 consecutive iterations that pass the
\* dimension check at most one transmits
C25_ThrottleAsClaimed ==
    lastIter.ran =>
        /\ lastIter.sent <=> (lastIter.count % 5 = 0)
        /\ lastIter.sent => lastIter.gap >= 5

\* C25: an iteration that passes the dimension check transmits exactly when
\* the connection flag its loop captured is true and the frame counter is a
\* multiple of 5, whether or not detection ran; it follows the transmission
\* before it by fewer than 5 iterations only if the counter was reset in
\* between
C25_Throttle ==
    lastIter.ran =>
        /\ lastIter.sent <=> (lastIter.conn /\ lastIter.count % 5 = 0)
        /\ (lastIter.sent /\ lastIter.gap < 5) => lastIter.gapReset

\* an iteration with detection skipped transmits, five iterations after the
\* transmission before it and with no reset of the counter in between
C25_Witness ==
    /\ lastIter.ran /\ lastIter.sent
    /\ ~lastIter.detect
    /\ lastIter.count = 5
    /\ lastIter.gap = 5 /\ ~lastIter.gapReset

(* ------------------- the pure functions, specification ---------------- *)
\* smoothed cursor positions handed to the snap logic on two successive
\* frames: on and near the centres of the targets, and far from all of them
SnapPts == { Pt(125, 65), Pt(160, 65), Pt(180, 65), Pt(350, 170), Pt(300, 170), Pt(600, 400) }
SnappedTo(t) == [isSnapped |-> TRUE, element |-> t, snapPos |-> TargetCentre(t)]
SnapInputs ==
    { [stage |-> "input", before |-> sn, p |-> p1, p2 |-> p2, mounted |-> mt,
       after1 |-> sn, final1 |-> p1, hl1 |-> {}, after2 |-> sn, final2 |-> p2] :
          sn \in {Unsnapped} \cup { SnappedTo(t) : t \in Targets },
          p1 \in SnapPts, p2 \in SnapPts,
          mt \in { Targets, Targets \ {"browserClose"} } }

\* raw fingertip coordinates and sensitivities of the tracked cursor
TrackCoords == {-200, 100, 500, 1200}
TrackSens == {10, 50}
TrackInputs == { [stage |-> "input", pos |-> Pt(0, 0), wn |-> wn, n |-> 0] : wn \in WinSizes }

engineVars == << reactVars, refVars, domVars, loopVars, histVars, landmarkerFailed, widgetVars,
                throttleVars >>

\* one calculation is set up: a fingertip to map, a position to smooth toward
\* a target, or a hand to classify
InitCalc ==
    /\ InitEngine
    /\ \/ /\ mapBench \in MapInputs /\ smoothBench = IdleSmooth /\ fistBench = IdleFist
          /\ snapBench = IdleSnap /\ trackBench = IdleTrack
       \/ /\ mapBench = IdleMap /\ smoothBench \in SmoothInputs /\ fistBench = IdleFist
          /\ snapBench = IdleSnap /\ trackBench = IdleTrack
       \/ /\ mapBench = IdleMap /\ smoothBench = IdleSmooth /\ fistBench \in FistInputs
          /\ snapBench = IdleSnap /\ trackBench = IdleTrack
       \/ /\ mapBench = IdleMap /\ smoothBench = IdleSmooth /\ fistBench = IdleFist
          /\ snapBench \in SnapInputs /\ trackBench = IdleTrack
       \/ /\ mapBench = IdleMap /\ smoothBench = IdleSmooth /\ fistBench = IdleFist
          /\ snapBench = IdleSnap /\ trackBench \in TrackInputs

\* sensitivity mapping of the index fingertip: normalised and screen position
MapCursor ==
    /\ mapBench.stage = "input"
    /\ mapBench' = [mapBench EXCEPT
                       !.stage = "done",
                       !.norm = Pt(MapAxis(mapBench.raw.x, mapBench.sens),
                                   MapAxis(mapBench.raw.y, mapBench.sens)),
                       !.target = TargetPos(mapBench.raw, mapBench.sens, mapBench.wn)]
    /\ UNCHANGED << engineVars, smoothBench, fistBench, snapBench, trackBench >>

\* one more frame of smoothing toward the same target
SmoothFrame ==
    /\ smoothBench.stage \in {"input", "done"}
    /\ smoothBench.n < MaxSmoothSteps
    /\ smoothBench' = [smoothBench EXCEPT
                          !.stage = "done",
                          !.prev = smoothBench.pos,
                          !.pos = Smooth(smoothBench.pos, smoothBench.target),
                          !.n = smoothBench.n + 1]
    /\ UNCHANGED << engineVars, mapBench, fistBench, snapBench, trackBench >>

\* the fist heuristic on the hand
ClassifyFist ==
    /\ fistBench.stage = "input"
    /\ fistBench' = [fistBench EXCEPT
                        !.stage = "classified",
                        !.fist = isFist(FoldLandmarks(fistBench.wrist, fistBench.folds))]
    /\ UNCHANGED << engineVars, mapBench, smoothBench, snapBench, trackBench >>

\* the fist heuristic on the same hand at another distance from the camera
ClassifyScaled ==
    /\ fistBench.stage = "classified"
    /\ \E k \in ScaleFactors :
          fistBench' = [fistBench EXCEPT
                           !.stage = "scaled",
                           !.k = k,
                           !.scaled = isFist(ScaleLandmarks(
                                         FoldLandmarks(fistBench.wrist, fistBench.folds), k))]
    /\ UNCHANGED << engineVars, mapBench, smoothBench, snapBench, trackBench >>

\* the snap logic on the first frame
SnapFrame ==
    /\ snapBench.stage = "input"
    /\ \E r \in { SnapEngine(snapBench.before, snapBench.p, snapBench.mounted,
                              IF snapBench.before.isSnapped
                              THEN {snapBench.before.element} ELSE {}) } :
          snapBench' = [snapBench EXCEPT !.stage = "first", !.after1 = r.snap,
                                         !.final1 = r.final, !.hl1 = r.hl]
    /\ UNCHANGED << engineVars, mapBench, smoothBench, fistBench, trackBench >>

\* the snap logic on the following processed hand frame
SnapNextFrame ==
    /\ snapBench.stage = "first"
    /\ \E r \in { SnapEngine(snapBench.after1, snapBench.p2, snapBench.mounted,
                              snapBench.hl1) } :
          snapBench' = [snapBench EXCEPT !.stage = "second", !.after2 = r.snap,
                                         !.final2 = r.final]
    /\ UNCHANGED << engineVars, mapBench, smoothBench, fistBench, trackBench >>

\* one more hand frame of the tracked cursor: mapping and smoothing, with any
\* raw fingertip and any sensitivity, the window size held
TrackFrame ==
    /\ trackBench.stage \in {"input", "tracking"}
    /\ trackBench.n < MaxTrackSteps
    /\ \E rx \in TrackCoords, ry \in TrackCoords, sn \in TrackSens :
          trackBench' = [trackBench EXCEPT
                            !.stage = "tracking",
                            !.pos = Smooth(trackBench.pos,
                                           TargetPos(Pt(rx, ry), sn, trackBench.wn)),
                            !.n = trackBench.n + 1]
    /\ UNCHANGED << engineVars, mapBench, smoothBench, fistBench, snapBench >>

NextCalc ==
    \/ MapCursor
    \/ SmoothFrame
    \/ ClassifyFist
    \/ ClassifyScaled
    \/ SnapFrame
    \/ SnapNextFrame
    \/ TrackFrame

SpecCalc == InitCalc /\ [][NextCalc]_vars

Abs(a) == IF a >= 0 THEN a ELSE -a

(* ------------------------------- C26 ---------------------------------- *)
\* C26: the cursor mapping leaves the centre fixed: for every sensitivity in
\* [1, 5] a raw coordinate of 0.5 maps to the normalised coordinate 0.5 and
\* to half the window's width (height); at sensitivity 1.0 the mapping is the
\* identity on [0, 1]
C26_CentreInvariance ==
    mapBench.stage = "done" =>
        /\ mapBench.raw.x = 500 =>
              (mapBench.norm.x = 500 /\ 2 * mapBench.target.x = mapBench.wn.w)
        /\ mapBench.raw.y = 500 =>
              (mapBench.norm.y = 500 /\ 2 * mapBench.target.y = mapBench.wn.h)
        /\ (mapBench.sens = 10 /\ mapBench.raw.x \in 0..1000) =>
              mapBench.norm.x = mapBench.raw.x
        /\ (mapBench.sens = 10 /\ mapBench.raw.y \in 0..1000) =>
              mapBench.norm.y = mapBench.raw.y

\* the centre mapped at sensitivity 3.7
C26_Witness ==
    /\ mapBench.stage = "done"
    /\ mapBench.raw = Pt(500, 500) /\ mapBench.sens = 37
    /\ mapBench.target = Pt(mapBench.wn.w \div 2, mapBench.wn.h \div 2)

(* ------------------------------- C27 ---------------------------------- *)
\* C27: the amplified coordinates are clamped: the normalised cursor
\* coordinates lie in [0, 1] (the screen position within the window) for every
\* raw input and sensitivity; a raw x of 0.1 at sensitivity 2 maps to 0
C27_Clamped ==
    mapBench.stage = "done" =>
        /\ mapBench.norm.x \in 0..1000 /\ mapBench.norm.y \in 0..1000
        /\ mapBench.target.x \in 0..mapBench.wn.w
        /\ mapBench.target.y \in 0..mapBench.wn.h
        /\ (mapBench.raw.x = 100 /\ mapBench.sens = 20) => mapBench.norm.x = 0

\* raw x 0.1 at sensitivity 2 clamped to 0, raw y beyond the image clamped
\* to 1
C27_Witness ==
    /\ mapBench.stage = "done"
    /\ mapBench.raw = Pt(100, 1200) /\ mapBench.sens = 20
    /\ mapBench.norm = Pt(0, 1000)

(* ------------------------------- C28 ---------------------------------- *)
\* the smoothed coordinate moved from a to b with the target at t: not away
\* from the target, not across it, and nearer whenever it was LerpDen pixels
\* or more away (below that the whole-pixel step is 0)
Toward(a, b, t) ==
    /\ Abs(t - b) <= Abs(t - a)
    /\ (a <= t) => (a <= b /\ b <= t)
    /\ (a >= t) => (t <= b /\ b <= a)
    /\ (Abs(t - a) >= LerpDen) => (Abs(t - b) < Abs(t - a))

\* C28: smoothing converges monotonically: with the target held constant,
\* on every frame the smoothed position moves toward the target on each
\* axis, its distance to the target never increases and it never passes to
\* the other side of the target
C28_SmoothingMonotone ==
    smoothBench.stage = "done" =>
        /\ Toward(smoothBench.prev.x, smoothBench.pos.x, smoothBench.target.x)
        /\ Toward(smoothBench.prev.y, smoothBench.pos.y, smoothBench.target.y)
        /\ Dist2(smoothBench.pos, smoothBench.target)
              <= Dist2(smoothBench.prev, smoothBench.target)

\* the last of several frames of smoothing, still moving on both axes, one
\* axis rising and the other falling
C28_Witness ==
    /\ smoothBench.stage = "done"
    /\ smoothBench.n >= 3
    /\ smoothBench.prev.x < smoothBench.pos.x /\ smoothBench.pos.x < smoothBench.target.x
    /\ smoothBench.prev.y > smoothBench.pos.y /\ smoothBench.pos.y > smoothBench.target.y

(* ------------------------------- C29 ---------------------------------- *)
\* C29: a hand is classified as a fist exactly when, for each of the four
\* fingers (tip/base 8/5, 12/9, 16/13, 20/17), the tip is strictly nearer to
\* the wrist (landmark 0) than the base joint
C29_FistIffAllFolded ==
    fistBench.stage \in {"classified", "scaled"} =>
        LET lm == FoldLandmarks(fistBench.wrist, fistBench.folds) IN
        fistBench.fist <=>
            \A f \in 1..4 :
                Dist2(lm[FingerPairs[f][1]], lm[0]) < Dist2(lm[FingerPairs[f][2]], lm[0])

\* a hand with three fingers folded and one tip exactly as far from the
\* wrist as its base joint is not a fist
C29_Witness ==
    /\ fistBench.stage = "classified"
    /\ ~fistBench.fist
    /\ \E f \in 1..4 :
          /\ fistBench.folds[f] = "level"
          /\ \A g \in (1..4) \ {f} : fistBench.folds[g] = "folded"

(* ------------------------------- C30 ---------------------------------- *)
\* C30: the fist classification is scale-invariant: multiplying every
\* landmark's distance from the wrist by a common positive factor does not
\* change it
C30_FistScaleInvariant ==
    fistBench.stage = "scaled" => (fistBench.scaled <=> fistBench.fist)

\* a fist at half the size is still a fist
C30_Witness ==
    /\ fistBench.stage = "scaled"
    /\ fistBench.k = << 1, 2 >>
    /\ fistBench.fist /\ fistBench.scaled

(* ------------------------------- C34 ---------------------------------- *)
\* a step in which an iteration passed the dimension check and reached the
\* throttled send
CountedStep == lastFrame' \in {"nohand", "dup", "nodetect"} /\ lastIter'.ran

\* C34: video frames are sent only while the application is connected: once
\* the power state is off no loop iteration hands a frame to the socket, also
\* when the loop was started while connected
C34_SendOnlyWhileConnected ==
    [][(CountedStep /\ lastIter'.sent) => isConnected]_vars

(* ------------------------------- C35 ---------------------------------- *)
\* C35: an unsnap and a snap never happen on the same frame: a frame on
\* which the engine leaves its snap ends Unsnapped, with nothing highlighted
\* and the effective cursor at the smoothed position, whatever targets are in
\* snap range (no scan is made); it can be Snapped again on the following
\* processed hand frame at the earliest
C35_NoSnapOnUnsnapFrame ==
    (snapBench.stage \in {"first", "second"}
        /\ snapBench.before.isSnapped /\ snapBench.after1 # snapBench.before) =>
        /\ snapBench.after1 = Unsnapped
        /\ snapBench.final1 = snapBench.p
        /\ snapBench.hl1 = {}

\* the engine left its snap with another target in snap range, stayed
\* Unsnapped on that frame, and snapped on the following frame
C35_Witness ==
    /\ snapBench.stage = "second"
    /\ snapBench.before.isSnapped /\ ~snapBench.after1.isSnapped
    /\ InSnapRange(snapBench.p, snapBench.mounted) # {}
    /\ snapBench.after2.isSnapped
    /\ snapBench.after2.element # snapBench.before.element

(* ------------------------------- C36 ---------------------------------- *)
\* C36: the smoothed cursor stays on screen: from (0,0), after any sequence
\* of hand frames with any raw coordinates and any sensitivity in [1, 5], the
\* window size held constant, the smoothed position lies in [0,W] x [0,H]
C36_SmoothedOnScreen ==
    trackBench.stage = "tracking" =>
        /\ trackBench.pos.x \in 0..trackBench.wn.w
        /\ trackBench.pos.y \in 0..trackBench.wn.h

\* after several frames toward different corners the cursor is inside the
\* window, off its edges
C36_Witness ==
    /\ trackBench.stage = "tracking"
    /\ trackBench.n >= 3
    /\ trackBench.pos.x > 0 /\ trackBench.pos.x < trackBench.wn.w
    /\ trackBench.pos.y > 0 /\ trackBench.pos.y < trackBench.wn.h

(* ------------------------------- C31 ---------------------------------- *)
\* keydown events: modifier (ctrlKey or metaKey), key, and the kind of
\* element that has the focus
KeyMods == { "none", "ctrl", "meta" }
KeyNames == { "m", ",", "r", "k", "/", "Escape", "a" }
KeyTargets == { "BODY", "INPUT", "TEXTAREA", "EDITABLE" }

\* tagName === 'INPUT' || tagName === 'TEXTAREA' || isContentEditable
isInputFocused(target) == target \in { "INPUT", "TEXTAREA", "EDITABLE" }

\* handleKeyPress: the handler the event invokes, "none" when it falls
\* through every test
handleKeyPress(mod, key, target, isRecording) ==
    LET cmd == mod \in { "ctrl", "meta" } IN
    IF cmd /\ key = "m" THEN "onToggleMute"
    ELSE IF cmd /\ key = "," THEN "onToggleSettings"
    ELSE IF cmd /\ key = "r"
         THEN IF isRecording THEN "onStopRecording" ELSE "onStartRecording"
    ELSE IF cmd /\ key = "k" /\ ~isInputFocused(target) THEN "onClearChat"
    ELSE IF cmd /\ key = "/" THEN "onFocusInput"
    ELSE IF key = "Escape" THEN "onToggleSettings"
    ELSE "none"

\* a keydown event reaches the window listener
KeyDown ==
    /\ \E mod \in KeyMods, key \in KeyNames, target \in KeyTargets, rec \in BOOLEAN :
          keys' = [handled |-> TRUE, mod |-> mod, key |-> key, target |-> target,
                   isRecording |-> rec,
                   invoked |-> handleKeyPress(mod, key, target, rec)]
    /\ UNCHANGED << reactVars, refVars, domVars, loopVars, histVars, landmarkerFailed,
                    throttleVars, benchVars, toasts, printer >>

NextKeys == KeyDown

SpecKeys == Init /\ [][NextKeys]_vars

\* C31: keyboard shortcuts are ignored while the user is typing: a keydown
\* whose target is an INPUT, a TEXTAREA or a content-editable element invokes
\* none of the handlers
C31_ShortcutsIgnoredWhileTyping ==
    (keys.handled /\ isInputFocused(keys.target)) => keys.invoked = "none"

(* ---------------------------- toasts (C32, C33) ----------------------- *)
\* a toast as addToast and the first render of Toast leave it: in the
\* container, visible, not exiting, the auto-dismiss timer armed; exitTimers
\* counts the pending 300 ms timers, calls the invocations of onClose, manual
\* records a click on the close button, late an onClose after the removal
NewToast == [stage |-> "shown", isVisible |-> TRUE, isExiting |-> FALSE, autoTimer |-> TRUE,
             exitTimers |-> 0, calls |-> 0, manual |-> FALSE, late |-> FALSE]

\* handleClose: setIsExiting(true); setTimeout(..., 300)
handleClose(t) == [t EXCEPT !.isExiting = TRUE, !.exitTimers = t.exitTimers + 1]

\* mutant of exitTimeout: the toast is left visible and onClose is not called
exitTimeout_NoClose(t) == [t EXCEPT !.exitTimers = t.exitTimers - 1]

\* the 300 ms callback: setIsVisible(false); if (onClose) onClose(), which is
\* onRemove(toast.id): the toast leaves the container and its unmount clears
\* the auto-dismiss timer; on a toast already removed the state update is
\* dropped and onRemove filters the list again
exitTimeout(t) ==
    [t EXCEPT !.exitTimers = t.exitTimers - 1,
              !.isVisible = FALSE,
              !.calls = t.calls + 1,
              !.late = t.late \/ t.stage = "removed",
              !.stage = "removed",
              !.autoTimer = FALSE]

widgetRest == << reactVars, refVars, domVars, loopVars, histVars, landmarkerFailed,
                throttleVars, benchVars >>

\* addToast: the next free slot of the container is filled
ToastAdd(i) ==
    /\ toasts[i] = NoToast
    /\ \A j \in 1..(i - 1) : toasts[j] # NoToast
    /\ toasts' = [toasts EXCEPT ![i] = NewToast]
    /\ UNCHANGED << widgetRest, keys, printer >>

\* a click on the close button of a rendered toast
ToastClick(i) ==
    /\ toasts[i].stage = "shown"
    /\ toasts[i].exitTimers + (IF toasts[i].autoTimer THEN 1 ELSE 0) < MaxExitTimers
    /\ toasts' = [toasts EXCEPT ![i] = [handleClose(toasts[i]) EXCEPT !.manual = TRUE]]
    /\ UNCHANGED << widgetRest, keys, printer >>

\* the auto-dismiss timer fires after the duration
ToastAutoTimer(i) ==
    /\ toasts[i].stage = "shown" /\ toasts[i].autoTimer
    /\ toasts' = [toasts EXCEPT ![i] = [handleClose(toasts[i]) EXCEPT !.autoTimer = FALSE]]
    /\ UNCHANGED << widgetRest, keys, printer >>

\* a 300 ms exit timer fires
ToastExitTimer(i) ==
    /\ toasts[i].stage \in {"shown", "removed"}
    /\ toasts[i].exitTimers > 0
    /\ toasts' = [toasts EXCEPT ![i] = exitTimeout(toasts[i])]
    /\ UNCHANGED << widgetRest, keys, printer >>

NextToast ==
    \/ \E i \in 1..MaxToasts : ToastAdd(i)
    \/ \E i \in 1..MaxToasts : ToastClick(i)
    \/ \E i \in 1..MaxToasts : ToastAutoTimer(i)
    \/ \E i \in 1..MaxToasts : ToastExitTimer(i)

SpecToast == Init /\ [][NextToast]_vars

\* timers that are armed fire
FairToast ==
    /\ SpecToast
    /\ \A i \in 1..MaxToasts : WF_vars(ToastAutoTimer(i)) /\ WF_vars(ToastExitTimer(i))

Shown(i) == toasts[i].stage = "shown"
ClosedManually(i) == toasts[i].stage # "none" /\ toasts[i].manual
Exiting(i) == toasts[i].stage # "none" /\ toasts[i].isExiting
\* the toast has left the container, invisible, its onClose invoked
Dismissed(i) ==
    /\ toasts[i].stage = "removed"
    /\ ~toasts[i].isVisible /\ toasts[i].calls >= 1

\* C32: a toast auto-dismisses: every toast in the container that is not
\* closed manually starts exiting once its duration has elapsed, and when the
\* 300 ms of the exit have elapsed it is invisible and its onClose has been
\* invoked
C32_AutoDismiss ==
    \A i \in 1..MaxToasts :
        /\ (Shown(i) /\ ~ClosedManually(i)) ~> (ClosedManually(i) \/ Exiting(i))
        /\ (Shown(i) /\ ~ClosedManually(i) /\ Exiting(i))
              ~> (ClosedManually(i) \/ Dismissed(i))

\* a toast nobody closed has left the container through its timers
C32_Witness ==
    \E i \in 1..MaxToasts :
        /\ toasts[i].stage = "removed" /\ ~toasts[i].manual
        /\ ~toasts[i].isVisible /\ toasts[i].isExiting /\ toasts[i].calls = 1

\* C33: onClose is invoked at most once per toast (and once it has left the
\* container, exactly once), whatever the interleaving of a manual close, the
\* auto-dismiss timer and the exit timers, and never after the toast has been
\* removed from the container
C33_OnCloseOnce ==
    \A i \in 1..MaxToasts :
        toasts[i].stage # "none" =>
            /\ toasts[i].calls <= 1
            /\ ~toasts[i].late
            /\ toasts[i].stage = "removed" => toasts[i].calls = 1

\* ------------------------------------------------------------------------
\* The printer window: discovery flag and fallback timers
\* ------------------------------------------------------------------------

\* the printers the server can report
PrinterNames == {"p1", "p2"}

\* the lists a printer_list message can carry
PrinterLists == SUBSET PrinterNames

\* handleDiscover: the flag is set, discover_printers is emitted (the server
\* answers with one printer_list) and a 5000 ms fallback timer is armed;
\* the timer is tagged with the number of the discovery that armed it
handleDiscover(p) ==
    [p EXCEPT !.isDiscovering = TRUE,
              !.gen = p.gen + 1,
              !.lists = p.lists + 1,
              !.timers = p.timers \cup {p.gen + 1}]

\* the window mounts: isDiscovering starts false, the effect runs
\* handleDiscover and subscribes to printer_list
PrinterMount ==
    /\ ~printer.mounted
    /\ printer' = handleDiscover([mounted |-> TRUE, isDiscovering |-> FALSE,
                                  printers |-> {}, gen |-> 0, lists |-> 0,
                                  timers |-> {}, staleClear |-> FALSE])
    /\ UNCHANGED << widgetRest, keys, toasts >>

\* the refresh button, disabled while the flag is set
PrinterDiscoverClick ==
    /\ printer.mounted
    /\ ~printer.isDiscovering
    /\ printer.gen < MaxDiscoveries
    /\ printer' = handleDiscover(printer)
    /\ UNCHANGED << widgetRest, keys, toasts >>

\* a printer_list message arrives: the list is stored, the flag is cleared
PrinterListArrives ==
    /\ printer.mounted
    /\ printer.lists > 0
    /\ \E list \in PrinterLists :
          printer' = [printer EXCEPT !.lists = printer.lists - 1,
                                     !.printers = list,
                                     !.isDiscovering = FALSE]
    /\ UNCHANGED << widgetRest, keys, toasts >>

\* the fallback timer of discovery g fires (it is never cleared): the
\* callback clears the flag whichever discovery is pending; staleClear
\* records that it cleared the flag of a later discovery whose own 5 seconds
\* have not passed
fallbackTimeout(p, g) ==
    [p EXCEPT !.timers = p.timers \ {g},
              !.isDiscovering = FALSE,
              !.staleClear = p.staleClear \/ (p.isDiscovering /\ g < p.gen)]

\* all timers last 5000 ms, so they fire in the order they were armed
PrinterFallbackTimer ==
    /\ printer.mounted
    /\ printer.timers # {}
    /\ LET g == CHOOSE t \in printer.timers : \A u \in printer.timers : t <= u
       IN printer' = fallbackTimeout(printer, g)
    /\ UNCHANGED << widgetRest, keys, toasts >>

NextPrinter ==
    \/ PrinterMount
    \/ PrinterDiscoverClick
    \/ PrinterListArrives
    \/ PrinterFallbackTimer

SpecPrinter == Init /\ [][NextPrinter]_vars

\* C37: once a discovery is started isDiscovering stays true until a
\* printer_list message arrives or 5 seconds have passed since that most
\* recent start: the fallback timer of an earlier discovery never clears the
\* flag of a later discovery that is still pending
C37_FallbackOfLatestOnly == printer.mounted => ~printer.staleClear

====
